---------------------------- MODULE Spec2Model ----------------------------
(***************************************************************************)
(* Model of the subscription-forwarding endpoints of ferguson-livestock.   *)
(*                                                                         *)
(* The repository holds three versions of the POST /subscribe handler:     *)
(*   "client"  src/unnamed/part_001 lines 11-280  (client subscription,    *)
(*             then profile search / update / create / list add)          *)
(*   "upsert"  src/unnamed/part_001 lines 305-490 (create profile, on 409  *)
(*             update it, then list add)                                   *)
(*   "bulk"    src/scripts/generate-og-image.mjs lines 477-612 (one bulk   *)
(*             subscription job)                                           *)
(* One behaviour of the model is one invocation of one handler on one      *)
(* request.  Every await of the handler is a step; the reply of the        *)
(* external platform to an outbound call is an input of the step that      *)
(* resumes after it.                                                       *)
(*                                                                         *)
(* Text is modelled as a sequence of one-character strings.                *)
(***************************************************************************)
EXTENDS Integers, Sequences, FiniteSets, TLC

\* Longest phone text enumerated exhaustively by SpecPhone.
MaxPhoneLen == 3

Handlers == {"client", "upsert", "bulk"}

Digits == {"0", "1", "2", "3", "4", "5", "6", "7", "8", "9"}

\* Characters matched by the regular expression class \s.
Whitespace == {" ", "\t"}

---------------------------------------------------------------------------
(* JSON values of the request body's fields.  t is the JSON type; s is the *)
(* text of a string, or the decimal text of a number.                      *)

Absent == [t |-> "absent", s |-> <<>>]

Str(s) == [t |-> "str", s |-> s]

Num(s) == [t |-> "num", s |-> s]

\* JavaScript truthiness, as used by `!data.firstName`.
Truthy(v) ==
    CASE v.t = "absent" -> FALSE
      [] v.t = "str"    -> v.s # <<>>
      [] v.t = "num"    -> v.s # <<"0">>

\* String(v), the coercion RegExp.prototype.test applies to its argument.
ToText(v) == v.s

\* The same test without its anchors: /\d{4}/ accepts any text holding four
\* digits in a row.
PostcodeMatchesUnanchored(v) ==
    \E i \in 1..Len(ToText(v)) :
        /\ i + 3 <= Len(ToText(v))
        /\ \A j \in i..(i + 3) : ToText(v)[j] \in Digits

\* /^\d{4}$/.test(v)
PostcodeMatches(v) ==
    /\ Len(ToText(v)) = 4
    /\ \A i \in 1..4 : ToText(v)[i] \in Digits

---------------------------------------------------------------------------
(* Phone normalisation.                                                    *)

IsNotWhitespace(c) == c \notin Whitespace

IsDigitOrPlus(c) == c \in Digits \cup {"+"}

\* s.replace(/\s+/g, '')
StripWhitespace(s) == SelectSeq(s, IsNotWhitespace)

\* s.replace(/[^\d+]/g, '')
StripNonDigitPlus(s) == SelectSeq(s, IsDigitOrPlus)

\* s.startsWith(c) for a one-character c
StartsWith(s, c) == Len(s) > 0 /\ s[1] = c

\* s.slice(1)
Slice1(s) == IF Len(s) = 0 THEN <<>> ELSE SubSeq(s, 2, Len(s))

CountryCode == <<"+", "6", "1">>

\* The normalisation without the second replace(): punctuation is kept.
FormatPhoneKeepsPunctuation(s) ==
    LET f == StripWhitespace(s)
    IN  IF StartsWith(f, "0") THEN CountryCode \o Slice1(f)
        ELSE IF ~StartsWith(f, "+") THEN CountryCode \o f
        ELSE f

FormatPhoneKeepsTrunkZero(s) ==
    LET f == StripNonDigitPlus(StripWhitespace(s))
    IN  IF StartsWith(f, "+") THEN f ELSE CountryCode \o f

FormatPhone(s) ==
    LET f == StripNonDigitPlus(StripWhitespace(s))
    IN  IF StartsWith(f, "0") THEN CountryCode \o Slice1(f)
        ELSE IF ~StartsWith(f, "+") THEN CountryCode \o f
        ELSE f

---------------------------------------------------------------------------
(* Responses, environment, outbound calls and their replies.               *)

NoField == "<none>"

NoId == "<undefined>"

Response(st, ok, err, msg) ==
    [status |-> st, success |-> ok, error |-> err, message |-> msg]

NoResponse == Response(0, FALSE, NoField, NoField)

MissingFieldsError == "Missing required fields"

InvalidPostcodeError == "Invalid postcode format"

ConfigError == "Server configuration error"

GenericError == "An error occurred. Please try again."

SuccessMessage == "Successfully subscribed to the wait list!"

\* Messages of the errors the handlers throw themselves.
NoDuplicateIdError == "Could not get existing profile ID"

CreateFailedError == "Failed to create profile"

SubscribeFailedError == "Failed to subscribe"

\* Messages of the errors thrown by the runtime.
JsonSyntaxError == "Unexpected token in JSON"

NullPropertyError == "Cannot read properties of null"

UndefinedPropertyError == "Cannot read properties of undefined"

NotAFunctionError == "data.phone.replace is not a function"

FetchError == "fetch failed"

BodyReadError == "terminated"

ThrownErrors ==
    {NoDuplicateIdError, CreateFailedError, SubscribeFailedError, JsonSyntaxError,
     NullPropertyError, UndefinedPropertyError, NotAFunctionError, FetchError,
     BodyReadError}

\* Lines written with console.error that are not a caught error.
ConfigLog == "Missing Klaviyo configuration"

CreateFailedLog == "Klaviyo profile creation failed"

ListFailedLog == "Klaviyo list subscription failed"

SubscribeFailedLog == "Klaviyo subscription failed"

ParseSearchLog == "Error parsing search response"

\* The 'revision' header of the private API and of the client API.
Revision == "2024-02-15"

ClientRevision == "2023-06-15"

\* import.meta.env: "" stands for a variable that is unset or empty.
Envs ==
    [KLAVIYO_API_KEY : {"", "pk_private"},
     KLAVIYO_LIST_ID : {"", "L1"},
     KLAVIYO_PUBLIC_API_KEY : {"", "pk_public"}]

\* An outbound call: fetch(url, {method, headers, body}).
\*   id    the profile identifier in the URL or the body (NoField: none)
\*   list  the list identifier in the URL or the body (NoField: none)
\*   auth  the value of the Authorization key header (NoField: no header)
Call(kind, id, list, auth, revision, phone) ==
    [kind |-> kind, id |-> id, list |-> list, auth |-> auth,
     revision |-> revision, phone |-> phone]

\* A reply body.  k: "unreadable" (reading the body rejects), "notjson",
\* "null", "object".  For an object: data is "absent", "object", "array0"
\* (empty array) or "array1" (one element); id is data.id, or data[0].id;
\* dup is errors[0].meta.duplicate_profile_id.
Body(k, data, id, dup) == [k |-> k, data |-> data, id |-> id, dup |-> dup]

Unreadable == Body("unreadable", "absent", NoId, NoId)

NotJson == Body("notjson", "absent", NoId, NoId)

JsonNull == Body("null", "absent", NoId, NoId)

EmptyObject == Body("object", "absent", NoId, NoId)

\* The outcome of one outbound call: fetch rejects (threw), or resolves to a
\* response with a status and a body.
Reply(status, body) == [threw |-> FALSE, status |-> status, body |-> body]

NetworkError == [threw |-> TRUE, status |-> 0, body |-> Unreadable]

\* Response.ok
Ok(status) == status \in 200..299

Ids == {"p1", "p2"}

---------------------------------------------------------------------------
(* Inputs of the model.                                                    *)

\* The phone texts of the specification's examples.
LocalPhone == <<"0", "4", "1", "2", " ", "3", "4", "5", " ", "6", "7", "8">>

E164Phone == <<"+", "6", "1", "4", "1", "2", "3", "4", "5", "6", "7", "8">>

BarePhone == <<"4", "1", "2", "3", "4", "5", "6", "7", "8">>

FirstNames == {Absent, Str(<<>>), Str(<<"A", "l">>), Num(<<"0">>)}

Phones ==
    {Absent, Str(<<>>), Str(LocalPhone), Str(E164Phone), Str(BarePhone),
     Num(<<"4", "1", "2">>)}

Postcodes ==
    {Absent, Str(<<>>), Str(<<"A", "B", "C", "D">>), Str(<<"1", "2", "3">>),
     Str(<<"1", "2", "3", "4", "5">>), Str(<<"2", "6", "5", "0">>),
     Str(<<"2", "6", "5", "0", "\n">>), Num(<<"2", "6", "5", "0">>)}

\* The request body: text that is no JSON, the JSON value null, or an object
\* (any other JSON value has none of the three fields, like the empty object).
RequestBody(kind, firstName, phone, postcode) ==
    [kind |-> kind, firstName |-> firstName, phone |-> phone, postcode |-> postcode]

RequestBodies ==
    {RequestBody("invalid", Absent, Absent, Absent),
     RequestBody("null", Absent, Absent, Absent)}
    \cup {RequestBody("object", f, p, c) : f \in FirstNames, p \in Phones, c \in Postcodes}

\* Replies of the platform to each kind of call.
IdBodies == {Body("object", "object", i, NoId) : i \in Ids \cup {NoId}}

DupBodies == {Body("object", "absent", NoId, d) : d \in Ids \cup {""}}

ListBodies ==
    {Body("object", "array0", NoId, NoId)}
    \cup {Body("object", "array1", i, NoId) : i \in Ids \cup {NoId}}

CreateReplies ==
    {NetworkError}
    \cup {Reply(st, b) : st \in {200, 201, 400, 409, 500},
                         b \in {Unreadable, NotJson, JsonNull, EmptyObject}
                               \cup IdBodies \cup DupBodies}

UpdateReplies ==
    {NetworkError, Reply(200, EmptyObject), Reply(404, EmptyObject), Reply(500, EmptyObject)}

ListReplies ==
    {NetworkError}
    \cup {Reply(st, b) : st \in {200, 204, 400, 404, 500}, b \in {Unreadable, EmptyObject}}

SubscribeReplies ==
    {NetworkError}
    \cup {Reply(st, b) : st \in {202, 400}, b \in {Unreadable, EmptyObject}}

BulkReplies ==
    {NetworkError}
    \cup {Reply(st, b) : st \in {200, 202, 400, 500}, b \in {Unreadable, EmptyObject}}

SearchReplies ==
    {NetworkError}
    \cup {Reply(st, b) : st \in {200, 400},
                         b \in {Unreadable, NotJson, JsonNull, EmptyObject} \cup ListBodies}

---------------------------------------------------------------------------
(* State of one invocation.                                                *)

VARIABLES
    handler,         \* which of the three POST handlers serves the request
    env,             \* import.meta.env
    body,            \* the request body
    pc,              \* "start", "parsed", the kind of the call awaited, "wait", "done"
    formattedPhone,  \* let formattedPhone
    profileId,       \* let profileId / const profileId / const newProfileId
    calls,           \* the outbound calls issued so far, in order
    replies,         \* the outcomes of the calls that have settled, in order
    response,        \* the Response returned to the caller
    log,             \* the lines written with console.error
    other,           \* the locals of a second, suspended invocation
    remote,          \* the platform's contact store
    og               \* the run of the image generator

vars ==
    <<handler, env, body, pc, formattedPhone, profileId, calls, replies, response, log,
      other, remote, og>>

\* The locals of an invocation of handler h on body b that has not started.
Locals(h, b) ==
    [handler |-> h, body |-> b, pc |-> "start", formattedPhone |-> <<>>,
     profileId |-> NoId, calls |-> <<>>, replies |-> <<>>, response |-> NoResponse,
     log |-> <<>>]

\* No second invocation.
NoInvocation == Locals("none", RequestBody("null", Absent, Absent, Absent))

\* The platform's store: the contacts (identifier and phone), the members
\* of the configured list, the number of calls of the current submission it
\* has served, its reply to the last of them, and the number of
\* submissions completed before the current one.
Remote(contacts, members) ==
    [contacts |-> contacts, members |-> members, served |-> 0, reply |-> NetworkError,
     round |-> 0]

\* No platform: the replies are arbitrary.
NoRemote == Remote({}, {})

\* The three font files, in the order downloadFonts fetches them.
FontFiles ==
    <<"SourceSans3-Regular.ttf", "SourceSans3-Bold.ttf", "CormorantGaramond-SemiBold.ttf">>

Fonts == {FontFiles[i] : i \in 1..Len(FontFiles)}

\* An error of the generator: its message, and the file and the status
\* named in it ("" and 0: none).
Failure(msg, file, status) == [msg |-> msg, file |-> file, status |-> status]

NoFailure == Failure("", "", 0)

\* The state of a run of generateOGImage.
\*   pc         the await the run is at ("idle": no run)
\*   files      the font files present in scripts/fonts
\*   next       the position in FontFiles of the font downloadFonts is at
\*   reads      the number of times the three fonts have been read
\*   fonts      the fonts array holds the three fonts
\*   downloads  the number of calls of downloadFonts
\*   statuses   the statuses of the font downloads answered so far
\*   rendering  satori has been called
\*   written    public/og-image.jpg has been written
\*   logged     the error written by console.error
Generator(at, files) ==
    [pc |-> at, files |-> files, next |-> 1, reads |-> 0, fonts |-> FALSE, downloads |-> 0,
     statuses |-> <<>>, rendering |-> FALSE, written |-> FALSE, logged |-> NoFailure]

\* No run of the generator.
NoGenerator == Generator("idle", {})

InitState(hs, es, bs, os, rs, gs) ==
    /\ handler \in hs
    /\ env \in es
    /\ body \in bs
    /\ pc = "start"
    /\ formattedPhone = <<>>
    /\ profileId = NoId
    /\ calls = <<>>
    /\ replies = <<>>
    /\ response = NoResponse
    /\ log = <<>>
    /\ other \in os
    /\ remote \in rs
    /\ og \in gs

InitWith(hs, es, bs) == InitState(hs, es, bs, {NoInvocation}, {NoRemote}, {NoGenerator})

Init == InitWith(Handlers, Envs, RequestBodies)

---------------------------------------------------------------------------
(* Pieces shared by the three handlers.                                    *)

\* !data.firstName || !data.phone || !data.postcode
MissingFieldsIgnoresPhone(b) == ~Truthy(b.firstName) \/ ~Truthy(b.postcode)

MissingFields(b) == ~Truthy(b.firstName) \/ ~Truthy(b.phone) \/ ~Truthy(b.postcode)

\* The configuration guard: !apiKey || !listId, and in the client handler
\* !publicApiKey || !listId.
RequiredKey(h, e) ==
    IF h = "client" THEN e.KLAVIYO_PUBLIC_API_KEY ELSE e.KLAVIYO_API_KEY

ConfigMissingIgnoresList(h, e) == RequiredKey(h, e) = ""

ConfigMissing(h, e) == RequiredKey(h, e) = "" \/ e.KLAVIYO_LIST_ID = ""

\* The response of the outer catch block for a caught error.
CaughtResponseBadRequest(h, err) == Response(400, FALSE, MissingFieldsError, NoField)

CaughtResponse(h, err) ==
    IF h = "client"
    THEN Response(500, FALSE, err, NoField)
    ELSE Response(500, FALSE, GenericError, NoField)

SuccessResponseCreated == Response(201, TRUE, NoField, SuccessMessage)

SuccessResponse == Response(200, TRUE, NoField, SuccessMessage)

\* return new Response(...)
Return(r, lines) ==
    /\ response' = r
    /\ log' = log \o lines
    /\ pc' = "done"

\* The error leaves the handler uncaught: no response is returned.
ThrowEscapes(err, lines) ==
    /\ pc' = "crashed"
    /\ log' = log \o lines
    /\ UNCHANGED response

\* An error is thrown inside the outer try: the outer catch logs it and
\* answers; lines are the console.error lines written before the throw.
Throw(err, lines) == Return(CaughtResponse(handler, err), lines \o <<err>>)

\* await fetch(...): the call is issued and the handler waits for it.
Issue(call, lines) ==
    /\ calls' = Append(calls, call)
    /\ pc' = call.kind
    /\ log' = log \o lines
    /\ UNCHANGED response

\* The first outbound call of each handler.
FirstCall(h, e, phone) ==
    CASE h = "upsert" ->
           Call("create", NoField, NoField, e.KLAVIYO_API_KEY, Revision, phone)
      [] h = "client" ->
           Call("subscribe", NoField, e.KLAVIYO_LIST_ID, NoField, ClientRevision, phone)
      [] h = "bulk" ->
           Call("bulk", NoField, e.KLAVIYO_LIST_ID, e.KLAVIYO_API_KEY, Revision, phone)

ListCallWithoutKey(id) == Call("list", id, env.KLAVIYO_LIST_ID, NoField, Revision, <<>>)

UpdateCall(id) == Call("update", id, NoField, env.KLAVIYO_API_KEY, Revision, <<>>)

ListCall(id) == Call("list", id, env.KLAVIYO_LIST_ID, env.KLAVIYO_API_KEY, Revision, <<>>)

\* await request.json()
ReadBody ==
    /\ pc = "start"
    /\ IF body.kind = "invalid"
       THEN Throw(JsonSyntaxError, <<>>)
       ELSE /\ pc' = "parsed"
            /\ UNCHANGED <<response, log>>
    /\ UNCHANGED <<og, other, remote, handler, env, body, formattedPhone, profileId, calls, replies>>

\* From the validation of the fields to the first outbound call.
Validate ==
    /\ pc = "parsed"
    /\ IF body.kind = "null"
       THEN Throw(NullPropertyError, <<>>) /\ UNCHANGED <<formattedPhone, calls>>
       ELSE IF MissingFields(body)
       THEN /\ Return(Response(400, FALSE, MissingFieldsError, NoField), <<>>)
            /\ UNCHANGED <<formattedPhone, calls>>
       ELSE IF ~PostcodeMatches(body.postcode)
       THEN /\ Return(Response(400, FALSE, InvalidPostcodeError, NoField), <<>>)
            /\ UNCHANGED <<formattedPhone, calls>>
       ELSE IF body.phone.t # "str"
       THEN Throw(NotAFunctionError, <<>>) /\ UNCHANGED <<formattedPhone, calls>>
       ELSE /\ formattedPhone' = FormatPhone(body.phone.s)
            /\ IF ConfigMissing(handler, env)
               THEN /\ Return(Response(500, FALSE, ConfigError, NoField), <<ConfigLog>>)
                    /\ UNCHANGED calls
               ELSE Issue(FirstCall(handler, env, formattedPhone'), <<>>)
    /\ UNCHANGED <<og, other, remote, handler, env, body, profileId, replies>>

---------------------------------------------------------------------------
(* Reading a reply.                                                        *)

\* The error thrown by response.json(), or by response.text() followed by
\* JSON.parse; NoField when the body parses.
ParseError(b) ==
    CASE b.k = "unreadable" -> BodyReadError
      [] b.k = "notjson"    -> JsonSyntaxError
      [] OTHER              -> NoField

\* The error thrown by response.text(); NoField when the body can be read.
ReadError(b) == IF b.k = "unreadable" THEN BodyReadError ELSE NoField

\* The error thrown by the expression parsed.data.id; NoField when it
\* evaluates (to an identifier, or to undefined).
DataIdError(b) ==
    CASE ParseError(b) # NoField -> ParseError(b)
      [] b.k = "null"            -> NullPropertyError
      [] b.data = "absent"       -> UndefinedPropertyError
      [] OTHER                   -> NoField

\* The value of parsed.data.id: an array has no id property.
DataId(b) == IF b.data = "object" THEN b.id ELSE NoId

\* if (existingId): undefined and the empty string are falsy.
IsIdAnyValue(id) == TRUE

IsId(id) == id # NoId /\ id # ""

---------------------------------------------------------------------------
(* The upsert handler: src/unnamed/part_001 lines 305-490.                 *)

\* The branches with the conflict status not recognised.
CreateClassWithoutConflict(status) ==
    IF status = 201 THEN "created"
    ELSE "failed"

\* The three branches on profileResponse.status.
CreateClass(status) ==
    IF status = 201 THEN "created"
    ELSE IF status = 409 THEN "conflict"
    ELSE "failed"

\* What the handler does with a settled create call:
\*   [do |-> "throw", err, lines]   an error reaches the outer catch
\*   [do |-> "update", id]          the update call is issued against id
\*   [do |-> "list", id]            the membership-add call is issued with id
CreateStep(do, id, err, lines) == [do |-> do, id |-> id, err |-> err, lines |-> lines]

UpsertAfterCreateSkipsUpdate(r) ==
    IF r.threw THEN CreateStep("throw", NoId, FetchError, <<>>)
    ELSE IF CreateClass(r.status) = "created"
    THEN IF DataIdError(r.body) # NoField
         THEN CreateStep("throw", NoId, DataIdError(r.body), <<>>)
         ELSE CreateStep("list", DataId(r.body), NoField, <<>>)
    ELSE IF CreateClass(r.status) = "conflict"
    THEN IF ParseError(r.body) # NoField
         THEN CreateStep("throw", NoId, ParseError(r.body), <<>>)
         ELSE IF r.body.k = "null"
         THEN CreateStep("throw", NoId, NullPropertyError, <<>>)
         ELSE IF IsId(r.body.dup)
         THEN CreateStep("list", r.body.dup, NoField, <<>>)
         ELSE CreateStep("throw", NoId, NoDuplicateIdError, <<>>)
    ELSE IF ReadError(r.body) # NoField
         THEN CreateStep("throw", NoId, ReadError(r.body), <<>>)
         ELSE CreateStep("throw", NoId, CreateFailedError, <<CreateFailedLog>>)

UpsertAfterCreateAlwaysUpdates(r) ==
    IF r.threw THEN CreateStep("throw", NoId, FetchError, <<>>)
    ELSE IF CreateClass(r.status) = "created"
    THEN IF DataIdError(r.body) # NoField
         THEN CreateStep("throw", NoId, DataIdError(r.body), <<>>)
         ELSE CreateStep("update", DataId(r.body), NoField, <<>>)
    ELSE IF CreateClass(r.status) = "conflict"
    THEN IF ParseError(r.body) # NoField
         THEN CreateStep("throw", NoId, ParseError(r.body), <<>>)
         ELSE IF r.body.k = "null"
         THEN CreateStep("throw", NoId, NullPropertyError, <<>>)
         ELSE IF IsId(r.body.dup)
         THEN CreateStep("update", r.body.dup, NoField, <<>>)
         ELSE CreateStep("throw", NoId, NoDuplicateIdError, <<>>)
    ELSE IF ReadError(r.body) # NoField
         THEN CreateStep("throw", NoId, ReadError(r.body), <<>>)
         ELSE CreateStep("throw", NoId, CreateFailedError, <<CreateFailedLog>>)

UpsertAfterCreate(r) ==
    IF r.threw THEN CreateStep("throw", NoId, FetchError, <<>>)
    ELSE IF CreateClass(r.status) = "created"
    THEN IF DataIdError(r.body) # NoField
         THEN CreateStep("throw", NoId, DataIdError(r.body), <<>>)
         ELSE CreateStep("list", DataId(r.body), NoField, <<>>)
    ELSE IF CreateClass(r.status) = "conflict"
    THEN IF ParseError(r.body) # NoField
         THEN CreateStep("throw", NoId, ParseError(r.body), <<>>)
         ELSE IF r.body.k = "null"
         THEN CreateStep("throw", NoId, NullPropertyError, <<>>)
         ELSE IF IsId(r.body.dup)
         THEN CreateStep("update", r.body.dup, NoField, <<>>)
         ELSE CreateStep("throw", NoId, NoDuplicateIdError, <<>>)
    ELSE IF ReadError(r.body) # NoField
         THEN CreateStep("throw", NoId, ReadError(r.body), <<>>)
         ELSE CreateStep("throw", NoId, CreateFailedError, <<CreateFailedLog>>)

\* await fetch('.../api/profiles/') settles; the reply is read and handled
\* up to the next outbound call.
UpsertCreateSettles(r) ==
    /\ handler = "upsert"
    /\ pc = "create"
    /\ replies' = Append(replies, r)
    /\ LET step == UpsertAfterCreate(r)
       IN  CASE step.do = "throw" ->
                  Throw(step.err, step.lines) /\ UNCHANGED <<profileId, calls>>
             [] step.do = "update" ->
                  profileId' = step.id /\ Issue(UpdateCall(step.id), step.lines)
             [] step.do = "list" ->
                  profileId' = step.id /\ Issue(ListCall(step.id), step.lines)
    /\ UNCHANGED <<og, other, remote, handler, env, body, formattedPhone>>

\* The same step with the call issued again after a network failure.
UpsertUpdateSettlesRetries(r) ==
    /\ handler = "upsert"
    /\ pc = "update"
    /\ replies' = Append(replies, r)
    /\ IF r.threw
       THEN Issue(UpdateCall(profileId), <<>>)
       ELSE Issue(ListCall(profileId), <<>>)
    /\ UNCHANGED <<og, other, remote, handler, env, body, formattedPhone, profileId>>

\* The same step with the membership-add call issued and not awaited.
UpsertUpdateSettlesFireAndForget(r) ==
    /\ handler = "upsert"
    /\ pc = "update"
    /\ replies' = Append(replies, r)
    /\ IF r.threw
       THEN Throw(FetchError, <<>>) /\ UNCHANGED calls
       ELSE calls' = Append(calls, ListCall(profileId)) /\ Return(SuccessResponse, <<>>)
    /\ UNCHANGED <<og, other, remote, handler, env, body, formattedPhone, profileId>>

\* The same step with the reply inspected: if (!updateResponse.ok) throw.
UpsertUpdateSettlesChecksStatus(r) ==
    /\ handler = "upsert"
    /\ pc = "update"
    /\ replies' = Append(replies, r)
    /\ IF r.threw
       THEN Throw(FetchError, <<>>) /\ UNCHANGED calls
       ELSE IF ~Ok(r.status)
       THEN Throw("Failed to update profile", <<>>) /\ UNCHANGED calls
       ELSE Issue(ListCall(profileId), <<>>)
    /\ UNCHANGED <<og, other, remote, handler, env, body, formattedPhone, profileId>>

\* await fetch('.../api/profiles/<id>/', PATCH) settles; its reply is not read.
UpsertUpdateSettles(r) ==
    /\ handler = "upsert"
    /\ pc = "update"
    /\ replies' = Append(replies, r)
    /\ IF r.threw
       THEN Throw(FetchError, <<>>) /\ UNCHANGED calls
       ELSE Issue(ListCall(profileId), <<>>)
    /\ UNCHANGED <<og, other, remote, handler, env, body, formattedPhone, profileId>>

\* !listResponse.ok && listResponse.status !== 204
ListFailed(status) == ~Ok(status) /\ status # 204

\* How the handler ends after the membership-add call settles: the error
\* that reaches the outer catch (NoField: none) and the lines logged before.
ListEnd(err, lines) == [err |-> err, lines |-> lines]

UpsertAfterListThrowsOnFailure(r) ==
    IF r.threw THEN ListEnd(FetchError, <<>>)
    ELSE IF ListFailed(r.status)
    THEN IF ReadError(r.body) # NoField
         THEN ListEnd(ReadError(r.body), <<>>)
         ELSE ListEnd("Failed to add to list", <<ListFailedLog>>)
    ELSE ListEnd(NoField, <<>>)

UpsertAfterList(r) ==
    IF r.threw THEN ListEnd(FetchError, <<>>)
    ELSE IF ListFailed(r.status)
    THEN IF ReadError(r.body) # NoField
         THEN ListEnd(ReadError(r.body), <<>>)
         ELSE ListEnd(NoField, <<ListFailedLog>>)
    ELSE ListEnd(NoField, <<>>)

\* await fetch('.../api/lists/<list>/relationships/profiles/') settles.
UpsertListSettles(r) ==
    /\ handler = "upsert"
    /\ pc = "list"
    /\ replies' = Append(replies, r)
    /\ LET end == UpsertAfterList(r)
       IN  IF end.err # NoField
           THEN Throw(end.err, end.lines)
           ELSE Return(SuccessResponse, end.lines)
    /\ UNCHANGED <<og, other, remote, handler, env, body, formattedPhone, profileId, calls>>

---------------------------------------------------------------------------
(* The client-subscription handler: src/unnamed/part_001 lines 11-280.     *)

SearchCall == Call("search", NoField, NoField, env.KLAVIYO_API_KEY, Revision, formattedPhone)

ClientCreateCall ==
    Call("create", NoField, NoField, env.KLAVIYO_API_KEY, Revision, formattedPhone)

\* The inner catch block logs the error; the handler then answers 200.
InnerCatch == Return(SuccessResponse, <<ParseSearchLog>>)

\* The same step with the status inspected: if (!response.ok) throw.
ClientSubscribeSettlesChecksStatus(r) ==
    /\ handler = "client"
    /\ pc = "subscribe"
    /\ replies' = Append(replies, r)
    /\ IF r.threw THEN Throw(FetchError, <<>>)
       ELSE IF ReadError(r.body) # NoField THEN Throw(ReadError(r.body), <<>>)
       ELSE IF ~Ok(r.status) THEN Throw(SubscribeFailedError, <<>>)
       ELSE IF env.KLAVIYO_API_KEY # ""
       THEN pc' = "wait" /\ UNCHANGED <<response, log>>
       ELSE Return(SuccessResponse, <<>>)
    /\ UNCHANGED <<og, other, remote, handler, env, body, formattedPhone, profileId, calls>>

\* await fetch('.../client/subscriptions/') settles and its text is read.
ClientSubscribeSettles(r) ==
    /\ handler = "client"
    /\ pc = "subscribe"
    /\ replies' = Append(replies, r)
    /\ IF r.threw THEN Throw(FetchError, <<>>)
       ELSE IF ReadError(r.body) # NoField THEN Throw(ReadError(r.body), <<>>)
       ELSE IF env.KLAVIYO_API_KEY # ""
       THEN pc' = "wait" /\ UNCHANGED <<response, log>>
       ELSE Return(SuccessResponse, <<>>)
    /\ UNCHANGED <<og, other, remote, handler, env, body, formattedPhone, profileId, calls>>

\* await new Promise(resolve => setTimeout(resolve, 1000)), then the search.
ClientWait ==
    /\ handler = "client"
    /\ pc = "wait"
    /\ Issue(SearchCall, <<>>)
    /\ UNCHANGED <<og, other, remote, handler, env, body, formattedPhone, profileId, replies>>

\* await fetch('.../api/profiles/?filter=...') settles and its text is read.
ClientSearchSettles(r) ==
    /\ handler = "client"
    /\ pc = "search"
    /\ replies' = Append(replies, r)
    /\ IF r.threw
       THEN Throw(FetchError, <<>>) /\ UNCHANGED <<profileId, calls>>
       ELSE IF ReadError(r.body) # NoField
       THEN Throw(ReadError(r.body), <<>>) /\ UNCHANGED <<profileId, calls>>
       ELSE IF ~Ok(r.status)
       THEN Return(SuccessResponse, <<>>) /\ UNCHANGED <<profileId, calls>>
       ELSE IF r.body.k \in {"notjson", "null"}
       THEN InnerCatch /\ UNCHANGED <<profileId, calls>>
       ELSE IF r.body.data = "array1"
       THEN profileId' = r.body.id /\ Issue(UpdateCall(r.body.id), <<>>)
       ELSE Issue(ClientCreateCall, <<>>) /\ UNCHANGED profileId
    /\ UNCHANGED <<og, other, remote, handler, env, body, formattedPhone>>

\* await fetch('.../api/profiles/<id>/', PATCH) settles, inside the inner try.
ClientUpdateSettles(r) ==
    /\ handler = "client"
    /\ pc = "update"
    /\ replies' = Append(replies, r)
    /\ IF r.threw
       THEN InnerCatch /\ UNCHANGED calls
       ELSE Issue(ListCall(profileId), <<>>)
    /\ UNCHANGED <<og, other, remote, handler, env, body, formattedPhone, profileId>>

\* await fetch('.../api/profiles/', POST) settles, inside the inner try.
ClientCreateSettles(r) ==
    /\ handler = "client"
    /\ pc = "create"
    /\ replies' = Append(replies, r)
    /\ IF r.threw \/ ReadError(r.body) # NoField
       THEN InnerCatch /\ UNCHANGED <<profileId, calls>>
       ELSE IF ~(Ok(r.status) \/ r.status = 201)
       THEN Return(SuccessResponse, <<>>) /\ UNCHANGED <<profileId, calls>>
       ELSE IF DataIdError(r.body) # NoField
       THEN InnerCatch /\ UNCHANGED <<profileId, calls>>
       ELSE profileId' = DataId(r.body) /\ Issue(ListCall(DataId(r.body)), <<>>)
    /\ UNCHANGED <<og, other, remote, handler, env, body, formattedPhone>>

\* await fetch('.../api/lists/<list>/relationships/profiles/') settles,
\* inside the inner try.
ClientListSettles(r) ==
    /\ handler = "client"
    /\ pc = "list"
    /\ replies' = Append(replies, r)
    /\ IF r.threw THEN InnerCatch ELSE Return(SuccessResponse, <<>>)
    /\ UNCHANGED <<og, other, remote, handler, env, body, formattedPhone, profileId, calls>>

---------------------------------------------------------------------------
(* The bulk-subscription handler: src/scripts/generate-og-image.mjs        *)
(* lines 477-612.                                                          *)

\* await fetch('.../api/profile-subscription-bulk-create-jobs') settles.
BulkSettles(r) ==
    /\ handler = "bulk"
    /\ pc = "bulk"
    /\ replies' = Append(replies, r)
    /\ IF r.threw THEN Throw(FetchError, <<>>)
       ELSE IF Ok(r.status) THEN Return(SuccessResponse, <<>>)
       ELSE IF ReadError(r.body) # NoField THEN Throw(ReadError(r.body), <<>>)
       ELSE Throw(SubscribeFailedError, <<SubscribeFailedLog>>)
    /\ UNCHANGED <<og, other, remote, handler, env, body, formattedPhone, profileId, calls>>

---------------------------------------------------------------------------
(* Specifications.                                                         *)

Next ==
    \/ ReadBody
    \/ Validate
    \/ \E r \in CreateReplies : UpsertCreateSettles(r)
    \/ \E r \in UpdateReplies : UpsertUpdateSettles(r)
    \/ \E r \in ListReplies : UpsertListSettles(r)
    \/ \E r \in SubscribeReplies : ClientSubscribeSettles(r)
    \/ ClientWait
    \/ \E r \in SearchReplies : ClientSearchSettles(r)
    \/ \E r \in UpdateReplies : ClientUpdateSettles(r)
    \/ \E r \in CreateReplies : ClientCreateSettles(r)
    \/ \E r \in ListReplies : ClientListSettles(r)
    \/ \E r \in BulkReplies : BulkSettles(r)

Spec == Init /\ [][Next]_vars

\* The runtime resumes a handler that can run, and every outbound call in
\* flight eventually completes or fails.
SpecFair == Init /\ [][Next]_vars /\ WF_vars(Next)

\* Every text of at most n characters over alphabet.
RECURSIVE Texts(_, _)
Texts(alphabet, n) ==
    IF n = 0 THEN {<<>>}
    ELSE LET shorter == Texts(alphabet, n - 1)
         IN  shorter \cup {Append(t, c) : t \in shorter, c \in alphabet}

PhoneAlphabet == {"0", "4", "+", " ", "-"}

ValidName == Str(<<"A", "l">>)

ValidPostcode == Str(<<"2", "6", "5", "0">>)

FullEnv ==
    [KLAVIYO_API_KEY |-> "pk_private", KLAVIYO_LIST_ID |-> "L1",
     KLAVIYO_PUBLIC_API_KEY |-> "pk_public"]

\* The phone normalisation applied to every short phone text and to the
\* examples, by each handler.
InitPhone ==
    InitWith(Handlers, {FullEnv},
             {RequestBody("object", ValidName, Str(p), ValidPostcode) :
                 p \in Texts(PhoneAlphabet, MaxPhoneLen)
                       \cup {LocalPhone, E164Phone, BarePhone}})

NextPhone == ReadBody \/ Validate

SpecPhone == InitPhone /\ [][NextPhone]_vars

---------------------------------------------------------------------------
(* Two invocations in flight at once.                                      *)

\* Everything the handler declares is declared inside the function (const
\* and let), so each invocation has its own copy.
Current ==
    [handler |-> handler, body |-> body, pc |-> pc, formattedPhone |-> formattedPhone,
     profileId |-> profileId, calls |-> calls, replies |-> replies,
     response |-> response, log |-> log]

\* The same switch with profileId declared at module level: one variable
\* for every invocation.
SwitchSharesProfileId ==
    /\ other.handler # "none"
    /\ other' = Current
    /\ handler' = other.handler
    /\ body' = other.body
    /\ pc' = other.pc
    /\ formattedPhone' = other.formattedPhone
    /\ profileId' = profileId
    /\ calls' = other.calls
    /\ replies' = other.replies
    /\ response' = other.response
    /\ log' = other.log
    /\ UNCHANGED <<env, remote, og>>

\* At an await the runtime suspends the running invocation with its locals
\* and resumes the other one with its own.
Switch ==
    /\ other.handler # "none"
    /\ other' = Current
    /\ handler' = other.handler
    /\ body' = other.body
    /\ pc' = other.pc
    /\ formattedPhone' = other.formattedPhone
    /\ profileId' = other.profileId
    /\ calls' = other.calls
    /\ replies' = other.replies
    /\ response' = other.response
    /\ log' = other.log
    /\ UNCHANGED <<env, remote, og>>

ShortPhone == <<"0", "4">>

PairBodies ==
    {RequestBody("object", ValidName, Str(p), ValidPostcode) : p \in {LocalPhone, ShortPhone}}

\* Two valid submissions to the upsert handler, interleaved at the awaits.
InitPair ==
    InitState({"upsert"}, {FullEnv},
              {RequestBody("object", ValidName, Str(LocalPhone), ValidPostcode)},
              {Locals("upsert", b) : b \in PairBodies}, {NoRemote}, {NoGenerator})

NextPair ==
    \/ ReadBody
    \/ Validate
    \/ \E r \in CreateReplies : UpsertCreateSettles(r)
    \/ \E r \in UpdateReplies : UpsertUpdateSettles(r)
    \/ \E r \in ListReplies : UpsertListSettles(r)
    \/ Switch

SpecPair == InitPair /\ [][NextPair]_vars

---------------------------------------------------------------------------
(* Repeated submissions against the platform.                              *)

\* The number of times the same submission is sent.
MaxSubmissions == 3

Contact(id, phone) == [id |-> id, phone |-> phone]

ContactIds(r) == {c.id : c \in r.contacts}

\* The contacts of the store with this phone number.
ContactsWith(r, phone) == {c \in r.contacts : c.phone = phone}

\* The platform's reply to a create call and its store afterwards: a
\* conflict naming the existing contact when the phone number is known,
\* otherwise a new contact under a fresh identifier.
PlatformCreate(r, call, fresh) ==
    IF ContactsWith(r, call.phone) # {}
    THEN [r EXCEPT !.served = @ + 1,
                   !.reply = Reply(409, Body("object", "absent", NoId,
                                             (CHOOSE c \in ContactsWith(r, call.phone) : TRUE).id))]
    ELSE [r EXCEPT !.served = @ + 1,
                   !.contacts = @ \cup {Contact(fresh, call.phone)},
                   !.reply = Reply(201, Body("object", "object", fresh, NoId))]

\* The reply to an update call: the contact keeps its identifier and phone.
PlatformUpdate(r, call) ==
    [r EXCEPT !.served = @ + 1,
              !.reply = IF call.id \in ContactIds(r)
                        THEN Reply(200, EmptyObject)
                        ELSE Reply(404, EmptyObject)]

\* The reply to a membership-add call: adding a member again changes nothing.
PlatformList(r, call) ==
    IF call.id \in ContactIds(r)
    THEN [r EXCEPT !.served = @ + 1,
                   !.members = @ \cup {call.id},
                   !.reply = Reply(204, EmptyObject)]
    ELSE [r EXCEPT !.served = @ + 1, !.reply = Reply(404, EmptyObject)]

\* The platform receives the call in flight and answers it.
PlatformServes ==
    /\ pc \in {"create", "update", "list"}
    /\ remote.served < Len(calls)
    /\ LET call == calls[Len(calls)]
       IN  \E fresh \in IF call.kind = "create" /\ ContactsWith(remote, call.phone) = {}
                         THEN Ids \ ContactIds(remote)
                         ELSE {NoId} :
             remote' = CASE call.kind = "create" -> PlatformCreate(remote, call, fresh)
                         [] call.kind = "update" -> PlatformUpdate(remote, call)
                         [] call.kind = "list"   -> PlatformList(remote, call)
    /\ UNCHANGED <<handler, env, body, pc, formattedPhone, profileId, calls, replies,
                   response, log, other, og>>

\* The platform has answered the call in flight.
Served == remote.served = Len(calls)

\* The same submission is sent again: a new invocation of the handler.
Resubmit ==
    /\ pc = "done"
    /\ remote.round + 1 < MaxSubmissions
    /\ remote' = [remote EXCEPT !.served = 0, !.round = @ + 1]
    /\ pc' = "start"
    /\ formattedPhone' = <<>>
    /\ profileId' = NoId
    /\ calls' = <<>>
    /\ replies' = <<>>
    /\ response' = NoResponse
    /\ log' = <<>>
    /\ UNCHANGED <<handler, env, body, other, og>>

OtherPhone == <<"+", "6", "1", "4">>

NormalizedPhone == <<"+", "6", "1", "4", "1", "2", "3", "4", "5", "6", "7", "8">>

\* The stores the first submission can meet: empty, holding another
\* contact, or holding a contact with the submission's phone number, each
\* with or without its membership.
InitialStores ==
    {Remote({}, {})}
    \cup {Remote({Contact(i, p)}, m \cap {i}) :
            i \in Ids, p \in {OtherPhone, NormalizedPhone}, m \in {{}, Ids}}

InitRemote ==
    InitState({"upsert"}, {FullEnv},
              {RequestBody("object", ValidName, Str(p), pcode) :
                  p \in {LocalPhone, E164Phone, BarePhone},
                  pcode \in {ValidPostcode, Num(<<"2", "6", "5", "0">>)}},
              {NoInvocation}, InitialStores, {NoGenerator})

NextRemote ==
    \/ ReadBody
    \/ Validate
    \/ PlatformServes
    \/ Served /\ UpsertCreateSettles(remote.reply)
    \/ Served /\ UpsertUpdateSettles(remote.reply)
    \/ Served /\ UpsertListSettles(remote.reply)
    \/ Resubmit

SpecRemote == InitRemote /\ [][NextRemote]_vars

---------------------------------------------------------------------------
(* The image generator: src/scripts/generate-og-image.mjs lines 31-467.    *)

requestVars ==
    <<handler, env, body, pc, formattedPhone, profileId, calls, replies, response, log,
      other, remote>>

\* generateOGImage().catch(console.error): the error is logged and the run ends.
Fail(g, err) == [g EXCEPT !.pc = "failed", !.logged = err]

\* await readFile(backgroundImagePath) settles; sharp(...).toBuffer() is called.
BackgroundSettles(ok) ==
    /\ og.pc = "background"
    /\ og' = IF ok THEN [og EXCEPT !.pc = "resize"]
             ELSE Fail(og, Failure("ENOENT", "cows-1.webp", 0))
    /\ UNCHANGED requestVars

\* await sharp(backgroundBuffer)...toBuffer() settles; the three fonts are read.
ResizeSettles(ok) ==
    /\ og.pc = "resize"
    /\ og' = IF ok THEN [og EXCEPT !.pc = "fonts"]
             ELSE Fail(og, Failure("unsupported image format", "cows-1.webp", 0))
    /\ UNCHANGED requestVars

\* The first Promise.all of the three readFile calls settles.  It can
\* resolve only if the three files are there; if it rejects, the catch block
\* calls downloadFonts, which creates the directory (errors ignored) and
\* fetches the first font.
FontsSettle(ok) ==
    /\ og.pc = "fonts"
    /\ ok => og.files = Fonts
    /\ og' = IF ok
             THEN [og EXCEPT !.pc = "satori", !.reads = @ + 1, !.fonts = TRUE,
                             !.rendering = TRUE]
             ELSE [og EXCEPT !.pc = "download", !.reads = @ + 1, !.downloads = @ + 1]
    /\ UNCHANGED requestVars

\* One turn of the download loop with the status of the reply not tested.
DownloadFontIgnoresStatus(r, saved) ==
    /\ og.pc = "download"
    /\ LET file == FontFiles[og.next]
       IN  og' =
             IF r.threw THEN Fail(og, Failure("fetch failed", file, 0))
             ELSE IF r.body.k = "unreadable"
             THEN Fail([og EXCEPT !.statuses = Append(@, r.status)],
                       Failure("terminated", file, 0))
             ELSE IF ~saved
             THEN Fail([og EXCEPT !.statuses = Append(@, r.status)],
                       Failure("EACCES", file, 0))
             ELSE [og EXCEPT !.statuses = Append(@, r.status),
                             !.files = @ \cup {file},
                             !.next = @ + 1,
                             !.pc = IF og.next = Len(FontFiles) THEN "fontsAgain"
                                    ELSE "download"]
    /\ UNCHANGED requestVars

\* One turn of the loop of downloadFonts: await fetch(font.url) settles, the
\* status is tested, the body is read and the file is written; after the
\* last font downloadFonts returns and the three fonts are read again.
DownloadFont(r, saved) ==
    /\ og.pc = "download"
    /\ LET file == FontFiles[og.next]
       IN  og' =
             IF r.threw THEN Fail(og, Failure("fetch failed", file, 0))
             ELSE IF ~Ok(r.status)
             THEN Fail([og EXCEPT !.statuses = Append(@, r.status)],
                       Failure("Failed to download", file, r.status))
             ELSE IF r.body.k = "unreadable"
             THEN Fail([og EXCEPT !.statuses = Append(@, r.status)],
                       Failure("terminated", file, 0))
             ELSE IF ~saved
             THEN Fail([og EXCEPT !.statuses = Append(@, r.status)],
                       Failure("EACCES", file, 0))
             ELSE [og EXCEPT !.statuses = Append(@, r.status),
                             !.files = @ \cup {file},
                             !.next = @ + 1,
                             !.pc = IF og.next = Len(FontFiles) THEN "fontsAgain"
                                    ELSE "download"]
    /\ UNCHANGED requestVars

\* The second Promise.all of the three readFile calls settles, in the catch
\* block: a rejection leaves generateOGImage.
FontsSettleAgain(ok) ==
    /\ og.pc = "fontsAgain"
    /\ ok => og.files = Fonts
    /\ og' = IF ok
             THEN [og EXCEPT !.pc = "satori", !.reads = @ + 1, !.fonts = TRUE,
                             !.rendering = TRUE]
             ELSE Fail([og EXCEPT !.reads = @ + 1],
                       Failure("ENOENT", "scripts/fonts", 0))
    /\ UNCHANGED requestVars

\* await satori(...) settles; resvg renders the SVG (rendered: it does not
\* throw) and sharp(...).jpeg().toBuffer() is called.
SatoriSettles(ok, rendered) ==
    /\ og.pc = "satori"
    /\ og' = IF ~ok THEN Fail(og, Failure("satori failed", "", 0))
             ELSE IF ~rendered THEN Fail(og, Failure("resvg failed", "", 0))
             ELSE [og EXCEPT !.pc = "jpeg"]
    /\ UNCHANGED requestVars

\* await sharp(pngOutputBuffer).jpeg(...).toBuffer() settles; writeFile is called.
JpegSettles(ok) ==
    /\ og.pc = "jpeg"
    /\ og' = IF ok THEN [og EXCEPT !.pc = "write"]
             ELSE Fail(og, Failure("jpeg failed", "", 0))
    /\ UNCHANGED requestVars

\* await writeFile(outputPath, jpegBuffer) settles; a write that fails may
\* have created the file (partial) or not.
WriteSettles(ok, partial) ==
    /\ og.pc = "write"
    /\ og' = IF ok THEN [og EXCEPT !.pc = "done", !.written = TRUE]
             ELSE Fail([og EXCEPT !.written = partial],
                       Failure("EACCES", "public/og-image.jpg", 0))
    /\ UNCHANGED requestVars

\* The replies to a font download.
FontReplies ==
    {NetworkError}
    \cup {Reply(st, b) : st \in {200, 404, 500}, b \in {Unreadable, EmptyObject}}

\* A run of the generator, with any of the font files already there.
InitGenerator ==
    InitState({"upsert"}, {FullEnv},
              {RequestBody("object", ValidName, Str(LocalPhone), ValidPostcode)},
              {NoInvocation}, {NoRemote},
              {Generator("background", fs) : fs \in SUBSET Fonts})

NextGenerator ==
    \/ \E ok \in BOOLEAN : BackgroundSettles(ok)
    \/ \E ok \in BOOLEAN : ResizeSettles(ok)
    \/ \E ok \in BOOLEAN : FontsSettle(ok)
    \/ \E r \in FontReplies, saved \in BOOLEAN : DownloadFont(r, saved)
    \/ \E ok \in BOOLEAN : FontsSettleAgain(ok)
    \/ \E ok, rendered \in BOOLEAN : SatoriSettles(ok, rendered)
    \/ \E ok \in BOOLEAN : JpegSettles(ok)
    \/ \E ok, partial \in BOOLEAN : WriteSettles(ok, partial)

SpecGenerator == InitGenerator /\ [][NextGenerator]_vars

---------------------------------------------------------------------------
(* Vocabulary of the properties.                                           *)

Done == pc = "done"

\* A field that is absent from the body, or is the empty text.
AbsentOrEmpty(v) == v.t = "absent" \/ (v.t = "str" /\ Len(v.s) = 0)

\* A field that holds a non-empty text.
NonEmptyText(v) == v.t = "str" /\ Len(v.s) > 0

\* Exactly four decimal digits.
FourDigits(s) == s \in [1..4 -> Digits]

\* A submission as the data model describes it: three non-empty texts, the
\* postcode four digits.
ValidSubmission ==
    /\ body.kind = "object"
    /\ NonEmptyText(body.firstName)
    /\ NonEmptyText(body.phone)
    /\ NonEmptyText(body.postcode)
    /\ FourDigits(body.postcode.s)

\* The call and the outcome at position i of the invocation.
Issued(i, kind) == Len(calls) >= i /\ calls[i].kind = kind

Settled(i) == Len(replies) >= i

\* The outcome i is an HTTP reply (fetch did not reject).
Replied(i) == Settled(i) /\ ~replies[i].threw

\* The handler could read what it reads of the reply to the membership-add
\* call: it reads the body of a non-success reply only.
ListReplyRead(r) == ~r.threw /\ (Ok(r.status) \/ r.body.k # "unreadable")

---------------------------------------------------------------------------
(* C1 *)

\* C1: for every submission in which one of firstName, phone, postcode is
\* absent or empty, no outbound call is ever issued and the response is 400
\* "Missing required fields", whatever the postcode and the configuration.
C1_MissingFields ==
    (/\ body.kind = "object"
     /\ \/ AbsentOrEmpty(body.firstName)
        \/ AbsentOrEmpty(body.phone)
        \/ AbsentOrEmpty(body.postcode))
    => /\ calls = <<>>
       /\ pc \in {"start", "parsed", "done"}
       /\ Done => response = Response(400, FALSE, MissingFieldsError, NoField)

\* An empty phone with an ill-formed postcode and no configuration at all.
C1_Witness ==
    /\ Done
    /\ body.firstName = ValidName
    /\ body.phone = Str(<<>>)
    /\ body.postcode = Str(<<"A", "B", "C", "D">>)
    /\ env.KLAVIYO_API_KEY = "" /\ env.KLAVIYO_LIST_ID = ""
    /\ response.status = 400

---------------------------------------------------------------------------
(* C2 *)

\* C2: for every submission with three non-empty fields whose postcode is
\* not exactly four decimal digits, no outbound call is ever issued and the
\* response is 400 "Invalid postcode format", whatever the configuration.
C2_InvalidPostcode ==
    (/\ body.kind = "object"
     /\ NonEmptyText(body.firstName)
     /\ NonEmptyText(body.phone)
     /\ NonEmptyText(body.postcode)
     /\ ~FourDigits(body.postcode.s))
    => /\ calls = <<>>
       /\ pc \in {"start", "parsed", "done"}
       /\ Done => response = Response(400, FALSE, InvalidPostcodeError, NoField)

\* A five-digit postcode, with and without configuration.
C2_Witness ==
    /\ Done
    /\ body.firstName = ValidName
    /\ body.phone = Str(LocalPhone)
    /\ body.postcode = Str(<<"1", "2", "3", "4", "5">>)
    /\ env.KLAVIYO_LIST_ID = ""
    /\ response.error = InvalidPostcodeError

---------------------------------------------------------------------------
(* C3 *)

\* The reference rule, in one pass over the text.
RECURSIVE KeepDigitsAndPlus(_)
KeepDigitsAndPlus(s) ==
    IF s = <<>> THEN <<>>
    ELSE IF Head(s) \in Digits \cup {"+"}
    THEN <<Head(s)>> \o KeepDigitsAndPlus(Tail(s))
    ELSE KeepDigitsAndPlus(Tail(s))

ReferenceRule(s) ==
    LET k == KeepDigitsAndPlus(s)
    IN  CASE k # <<>> /\ Head(k) = "0" -> <<"+", "6", "1">> \o Tail(k)
          [] k # <<>> /\ Head(k) = "+" -> k
          [] OTHER                     -> <<"+", "6", "1">> \o k

\* C3: the phone the handler sends is the reference rule applied to the
\* phone text: strip whitespace and every character that is neither a digit
\* nor '+', then replace a leading '0' by '+61', else prefix '+61' unless
\* the text starts with '+'.  "0412 345 678" and "412345678" become
\* "+61412345678", which is itself unchanged.
C3_PhoneNormalization ==
    Len(calls) >= 1 =>
        /\ formattedPhone = ReferenceRule(body.phone.s)
        /\ calls[1].phone = ReferenceRule(body.phone.s)
        /\ body.phone.s \in {LocalPhone, BarePhone, E164Phone}
               => formattedPhone = E164Phone

\* The local example has been normalised and sent.
C3_Witness ==
    /\ Issued(1, "create")
    /\ body.phone.s = LocalPhone
    /\ calls[1].phone = E164Phone

---------------------------------------------------------------------------
(* C4 *)

\* C4: given a valid submission, if the API credential the handler requires
\* or the list identifier is absent, no outbound call is ever issued and the
\* response is 500 "Server configuration error".
C4_ConfigurationGuard ==
    (/\ ValidSubmission
     /\ \/ RequiredKey(handler, env) = ""
        \/ env.KLAVIYO_LIST_ID = "")
    => /\ calls = <<>>
       /\ pc \in {"start", "parsed", "done"}
       /\ Done => response = Response(500, FALSE, ConfigError, NoField)

\* The credential is present and only the list identifier is missing.
C4_Witness ==
    /\ Done
    /\ ValidSubmission
    /\ handler = "upsert"
    /\ env.KLAVIYO_API_KEY # ""
    /\ env.KLAVIYO_LIST_ID = ""
    /\ response.status = 500

---------------------------------------------------------------------------
(* C5 *)

\* The create call of the upsert handler was answered 201 with a body that
\* carries the identifier of the new profile.
CreatedWithId ==
    /\ handler = "upsert"
    /\ Replied(1)
    /\ replies[1].status = 201
    /\ replies[1].body \in IdBodies
    /\ replies[1].body.id \in Ids

\* The membership-add call for id, to the configured list, is the call at
\* position i.
ListIssued(i, id) ==
    /\ Issued(i, "list")
    /\ calls[i].id = id
    /\ calls[i].list = env.KLAVIYO_LIST_ID

\* C5 as stated: after a successful create the membership-add call is issued
\* with the new identifier and the endpoint returns 200 whatever way the
\* membership-add call ends.
C5_AsStated ==
    CreatedWithId =>
        /\ ListIssued(2, replies[1].body.id)
        /\ Done => response.status = 200

\* C5 amended: after a create answered 201 with the new identifier, the
\* membership-add call is issued with that identifier, and the endpoint
\* returns 200 whatever the status of the reply to it; it returns 500 when
\* the membership-add call fails at the network level or the body of a
\* non-success reply cannot be read.
C5_ListOutcomeTolerated ==
    CreatedWithId =>
        /\ ListIssued(2, replies[1].body.id)
        /\ Len(calls) = 2
        /\ Done <=> Settled(2)
        /\ Done =>
              IF ListReplyRead(replies[2])
              THEN response = Response(200, TRUE, NoField, SuccessMessage)
              ELSE response = Response(500, FALSE, GenericError, NoField)

\* The membership-add call was answered 500 and the endpoint answered 200.
C5_Witness ==
    /\ CreatedWithId
    /\ Done
    /\ replies[2] = Reply(500, EmptyObject)
    /\ calls[2].id = "p2"
    /\ response.status = 200

---------------------------------------------------------------------------
(* C6 *)

\* The create call of the upsert handler was answered 409 with a payload
\* that carries a duplicate profile identifier.
ConflictWithId ==
    /\ handler = "upsert"
    /\ Replied(1)
    /\ replies[1].status = 409
    /\ replies[1].body \in DupBodies
    /\ replies[1].body.dup \in Ids

\* C6 as stated: after a conflict with a duplicate identifier an update call
\* is issued against that identifier after the create call, and the
\* endpoint returns 200.
C6_AsStated ==
    ConflictWithId =>
        /\ Issued(1, "create")
        /\ Issued(2, "update")
        /\ calls[2].id = replies[1].body.dup
        /\ Done => response.status = 200

\* C6 amended: after a conflict with a duplicate identifier an update call
\* is issued against exactly that identifier right after the create call,
\* followed by the membership-add call for it once the update call is
\* answered; the endpoint returns 200 unless the update or the
\* membership-add call fails at the network level or the body of a
\* non-success membership-add reply cannot be read, and then it returns 500.
C6_ConflictThenUpdate ==
    ConflictWithId =>
        /\ Issued(1, "create")
        /\ Issued(2, "update")
        /\ calls[2].id = replies[1].body.dup
        /\ Replied(2) => ListIssued(3, replies[1].body.dup)
        /\ Len(calls) <= 3
        /\ Done =>
              IF Replied(2) /\ Settled(3) /\ ListReplyRead(replies[3])
              THEN response = Response(200, TRUE, NoField, SuccessMessage)
              ELSE response = Response(500, FALSE, GenericError, NoField)

\* The update against the duplicate identifier was answered and the
\* endpoint answered 200.
C6_Witness ==
    /\ ConflictWithId
    /\ Done
    /\ replies[1].body.dup = "p2"
    /\ calls[2] = UpdateCall("p2")
    /\ Replied(2)
    /\ response.status = 200

---------------------------------------------------------------------------
(* C7 *)

\* The create call of the upsert handler was answered 409 with a payload
\* that parses and carries no duplicate profile identifier.
ConflictWithoutId ==
    /\ handler = "upsert"
    /\ Replied(1)
    /\ replies[1].status = 409
    /\ replies[1].body.k = "object"
    /\ replies[1].body.dup \notin Ids

\* C7: after a conflict whose payload carries no duplicate identifier the
\* endpoint returns 500 and the create call stays the only outbound call:
\* neither an update nor a membership-add call is issued.
C7_ConflictWithoutId ==
    ConflictWithoutId =>
        /\ Done
        /\ response = Response(500, FALSE, GenericError, NoField)
        /\ Len(calls) = 1
        /\ calls[1].kind = "create"

\* A conflict whose duplicate identifier is the empty text.
C7_Witness ==
    /\ ConflictWithoutId
    /\ replies[1].body.dup = ""
    /\ Done
    /\ response.status = 500

---------------------------------------------------------------------------
(* C8 *)

\* The reply reports a successful creation: a success status and a body
\* that carries the identifier of the created profile.
ReportsCreation(r) ==
    /\ ~r.threw
    /\ Ok(r.status)
    /\ r.body \in IdBodies
    /\ r.body.id \in Ids

\* C8: every reply to the create call that is neither a success nor a
\* conflict ends the request with 500 and no further call, and every reply
\* that reports a successful creation is handled as a success: the
\* membership-add call is issued with the created identifier.
C8_ThreeClasses ==
    (handler = "upsert" /\ Replied(1)) =>
        /\ (~Ok(replies[1].status) /\ replies[1].status # 409)
              => /\ Done
                 /\ response.status = 500
                 /\ Len(calls) = 1
        /\ ReportsCreation(replies[1])
              => ListIssued(2, replies[1].body.id)

---------------------------------------------------------------------------
(* C9 *)

\* The request of a valid submission, with the configuration the handler
\* requires, ended in a 500 response: an error was thrown after validation,
\* by the handler on a reply of the platform or by the runtime.
FailedAfterValidation ==
    /\ Done
    /\ ValidSubmission
    /\ RequiredKey(handler, env) # ""
    /\ env.KLAVIYO_LIST_ID # ""
    /\ response.status = 500

\* C9: in every handler the body of a 500 response to a request that failed
\* after validation is the same fixed generic message, whatever error was
\* thrown and whatever the platform replied, and the detail of the failure
\* is in the server log only.
C9_GenericMessage ==
    FailedAfterValidation =>
        /\ response.error = GenericError
        /\ response.error \notin ThrownErrors
        /\ Len(log) > 0
        /\ log[Len(log)] \in ThrownErrors

---------------------------------------------------------------------------
(* C10 *)

\* C10: every response has status 200, 400 or 500; success is true exactly
\* when the status is 200, and then a message is present; a 400 response
\* carries one of the two validation errors; a 500 response carries success
\* false and an error text.  No response exists before the handler returns.
C10_ResponseShape ==
    IF Done
    THEN /\ response.status \in {200, 400, 500}
         /\ response.success <=> response.status = 200
         /\ response.status = 200 => response.message # NoField
         /\ response.status = 400
               => response.error \in {MissingFieldsError, InvalidPostcodeError}
         /\ response.status = 500
               => ~response.success /\ response.error \notin {NoField, ""}
    ELSE response = NoResponse

\* A response of each status class is produced: here the success after the
\* three calls of the conflict path.
C10_Witness ==
    /\ Done
    /\ response.status = 200
    /\ response.message = SuccessMessage
    /\ Len(calls) = 3

---------------------------------------------------------------------------
(* C11 *)

\* The kinds of the outbound calls issued so far, in order.
Kinds == [i \in 1..Len(calls) |-> calls[i].kind]

\* C11: in the upsert and bulk handlers, when an outbound call fails at the
\* network level the request ends at once with the 500 response: the failed
\* call is the last call issued, and no call of the request is issued twice.
C11_NetworkFailureEnds ==
    handler # "client" =>
        \A i \in 1..Len(replies) :
            replies[i].threw =>
                /\ Done
                /\ response = Response(500, FALSE, GenericError, NoField)
                /\ i = Len(replies)
                /\ i = Len(calls)
                /\ \A j, k \in 1..Len(calls) : j # k => calls[j].kind # calls[k].kind

\* The update call failed at the network level.
C11_Witness ==
    /\ handler = "upsert"
    /\ Done
    /\ Kinds = <<"create", "update">>
    /\ replies[2].threw
    /\ response.status = 500

---------------------------------------------------------------------------
(* C12 *)

\* The create call was answered 201 with a body from which data.id is read.
CreateSucceeded ==
    /\ Replied(1)
    /\ replies[1].status = 201
    /\ DataIdError(replies[1].body) = NoField

\* C12 as stated: the calls of a finished request are exactly one of the
\* four sequences: none; create; create, membership-add; create, update,
\* membership-add.
C12_AsStated ==
    (handler = "upsert" /\ Done) =>
        Kinds \in {<<>>, <<"create">>, <<"create", "list">>,
                   <<"create", "update", "list">>}

\* C12 amended: the calls of a finished request are exactly one of: none
\* (the request failed before the first call); create (the create call
\* failed, or was answered by a conflict without identifier, another
\* failure or an unusable body); create, membership-add (create success);
\* create, update, membership-add (conflict with identifier); or create,
\* update when the update call failed at the network level.  So there is at
\* most one create call, no call is repeated and no update follows a
\* successful create.
C12_CallSequences ==
    handler = "upsert" =>
        /\ Kinds \in {<<>>, <<"create">>, <<"create", "list">>, <<"create", "update">>,
                      <<"create", "update", "list">>}
        /\ Done =>
              CASE Kinds = <<>> ->
                     replies = <<>> /\ response.status \in {400, 500}
                [] Kinds = <<"create">> ->
                     /\ ~CreateSucceeded
                     /\ ~ConflictWithId
                     /\ response.status = 500
                [] Kinds = <<"create", "list">> -> CreateSucceeded
                [] Kinds = <<"create", "update">> ->
                     /\ ConflictWithId
                     /\ replies[2].threw
                     /\ response.status = 500
                [] Kinds = <<"create", "update", "list">> ->
                     ConflictWithId /\ Replied(2)

\* The longest sequence: create, update, membership-add, all answered.
C12_Witness ==
    /\ handler = "upsert"
    /\ Done
    /\ Kinds = <<"create", "update", "list">>
    /\ Replied(3)

---------------------------------------------------------------------------
(* C13 *)

\* The number of outbound calls issued and not yet settled.
InFlight == Len(calls) - Len(replies)

\* C13: at most one outbound call is in flight: a call is issued only when
\* every earlier call has settled, the handler waits exactly while a call
\* is in flight, and the response is produced with no call in flight.
C13_Sequential ==
    /\ InFlight \in {0, 1}
    /\ InFlight = 1 <=> pc \in {"create", "update", "list", "subscribe", "search", "bulk"}
    /\ InFlight = 1 => pc = calls[Len(calls)].kind
    /\ Done => InFlight = 0

\* The third call of a request is in flight, the first two have settled.
C13_Witness ==
    /\ handler = "upsert"
    /\ Len(calls) = 3
    /\ Len(replies) = 2
    /\ pc = "list"

---------------------------------------------------------------------------
(* C14 *)

\* C14 as stated: every outbound call of the upsert and client handlers
\* carries the API-key Authorization header and the same revision marker.
C14_AsStated ==
    handler \in {"upsert", "client"} =>
        \A i \in 1..Len(calls) :
            /\ calls[i].auth \notin {NoField, ""}
            /\ calls[i].revision = Revision

\* C14 amended: every outbound call to the private API (create, update,
\* membership-add, search, bulk subscription) carries the Authorization
\* header with KLAVIYO_API_KEY and the revision 2024-02-15; the
\* client-subscription call, the first call of the client handler, carries
\* no Authorization header and the revision 2023-06-15.
C14_Headers ==
    \A i \in 1..Len(calls) :
        IF calls[i].kind = "subscribe"
        THEN /\ handler = "client"
             /\ i = 1
             /\ calls[i].auth = NoField
             /\ calls[i].revision = ClientRevision
        ELSE /\ calls[i].auth = env.KLAVIYO_API_KEY
             /\ calls[i].auth \notin {NoField, ""}
             /\ calls[i].revision = Revision

\* The client handler has issued its keyless first call and three calls to
\* the private API.
C14_Witness ==
    /\ handler = "client"
    /\ Kinds = <<"subscribe", "search", "update", "list">>

---------------------------------------------------------------------------
(* C17 *)

\* C17: every membership-add call of the upsert handler carries a defined,
\* non-empty identifier, equal to the identifier returned by the successful
\* create call or to the duplicate identifier of the conflict reply, and
\* targets the configured list.
C17_ResolvedIdentifier ==
    handler = "upsert" =>
        \A i \in 1..Len(calls) :
            calls[i].kind = "list" =>
                /\ calls[i].id \notin {NoId, NoField, ""}
                /\ \/ replies[1].status = 201 /\ calls[i].id = replies[1].body.id
                   \/ replies[1].status = 409 /\ calls[i].id = replies[1].body.dup
                /\ calls[i].list = env.KLAVIYO_LIST_ID
                /\ calls[i].list # ""

---------------------------------------------------------------------------
(* C19 *)

\* C19 as stated: in the conflict branch, once the update call is answered
\* with any status the membership-add call is issued with the duplicate
\* identifier and the endpoint returns 200; only a network error on the
\* update call leads to 500.
C19_AsStated ==
    ConflictWithId =>
        /\ Replied(2) =>
              /\ ListIssued(3, replies[1].body.dup)
              /\ Done => response.status = 200
        /\ (Done /\ response.status = 500) => replies[2].threw

\* C19 amended: in the conflict branch the reply to the update call is never
\* inspected: once it is answered with any status the membership-add call
\* is issued with the duplicate identifier, and the response is decided by
\* the membership-add call alone (200, or 500 when that call fails at the
\* network level or the body of its non-success reply cannot be read); a
\* network error on the update call leads to 500 with no membership-add
\* call.
C19_UpdateReplyIgnored ==
    (ConflictWithId /\ Settled(2)) =>
        IF replies[2].threw
        THEN /\ Done
             /\ response = Response(500, FALSE, GenericError, NoField)
             /\ Len(calls) = 2
        ELSE /\ ListIssued(3, replies[1].body.dup)
             /\ Done <=> Settled(3)
             /\ Done => (response.status = 200 <=> ListReplyRead(replies[3]))

\* The update call was answered 404 and the endpoint answered 200.
C19_Witness ==
    /\ ConflictWithId
    /\ Done
    /\ replies[2] = Reply(404, EmptyObject)
    /\ calls[3].id = replies[1].body.dup
    /\ response.status = 200

---------------------------------------------------------------------------
(* C20 *)

\* C20: in the upsert and bulk handlers a request whose body is no JSON, or
\* is the JSON value null, is answered 500 with the generic message, not
\* 400, and no outbound call is issued for it.
C20_UnparsableBody ==
    (handler # "client" /\ body.kind \in {"invalid", "null"}) =>
        /\ calls = <<>>
        /\ pc \in {"start", "parsed", "done"}
        /\ Done => response = Response(500, FALSE, GenericError, NoField)

\* The body null passes request.json() and fails at data.firstName.
C20_Witness ==
    /\ handler = "upsert"
    /\ body.kind = "null"
    /\ Done
    /\ log = <<NullPropertyError>>
    /\ response.status = 500

---------------------------------------------------------------------------
(* C16 *)

\* C16: provided every outbound call eventually completes or fails, every
\* invocation, whatever the request body and the outcome of each call,
\* eventually returns a response and then stays returned with that
\* response: no error leaves the handler.
C16_Terminates == <>[](Done /\ response.status \in {200, 400, 500})

\* The client handler has returned after a search reply that is no JSON.
C16_Witness ==
    /\ handler = "client"
    /\ Done
    /\ Len(replies) = 2
    /\ replies[2].body = NotJson
    /\ response # NoResponse

---------------------------------------------------------------------------
(* C15: invocations share no mutable state.                                *)

\* The calls issued and the response returned by the upsert handler run
\* alone on a valid submission b, with the configuration present, once it
\* has received the replies rs and has stopped at the next await or return.
AloneAtList(cs, id, rs) ==
    LET issued == Append(cs, ListCall(id))
    IN  IF rs = <<>>
        THEN [calls |-> issued, response |-> NoResponse]
        ELSE LET end == UpsertAfterList(rs[1])
             IN  [calls |-> issued,
                  response |-> IF end.err # NoField
                               THEN CaughtResponse("upsert", end.err)
                               ELSE SuccessResponse]

RunAlone(b, rs) ==
    LET c1 == FirstCall("upsert", env, FormatPhone(b.phone.s))
    IN  IF rs = <<>>
        THEN [calls |-> <<c1>>, response |-> NoResponse]
        ELSE LET step == UpsertAfterCreate(rs[1])
             IN  CASE step.do = "throw" ->
                        [calls |-> <<c1>>, response |-> CaughtResponse("upsert", step.err)]
                   [] step.do = "list" -> AloneAtList(<<c1>>, step.id, Tail(rs))
                   [] step.do = "update" ->
                        LET cs == <<c1, UpdateCall(step.id)>>
                        IN  IF Len(rs) = 1
                            THEN [calls |-> cs, response |-> NoResponse]
                            ELSE IF rs[2].threw
                            THEN [calls |-> cs,
                                  response |-> CaughtResponse("upsert", FetchError)]
                            ELSE AloneAtList(cs, step.id, Tail(Tail(rs)))

AsAlone(inv) ==
    IF inv.pc \in {"start", "parsed"}
    THEN inv.calls = <<>> /\ inv.response = NoResponse
    ELSE /\ inv.calls = RunAlone(inv.body, inv.replies).calls
         /\ inv.response = RunAlone(inv.body, inv.replies).response

\* C15: in every interleaving of two invocations, the calls each one has
\* issued and the response it has returned are those of the handler run
\* alone on its own request body, with the configuration and the replies to
\* its own calls.
C15_NoSharedState == AsAlone(Current) /\ AsAlone(other)

\* Both invocations have a call in flight, each on its own contact.
C15_Witness ==
    /\ pc = "list"
    /\ other.pc = "update"
    /\ Len(calls) = 3
    /\ profileId = "p2"
    /\ other.profileId = "p1"
    /\ body # other.body

---------------------------------------------------------------------------
(* C18: the same submission sent several times.                            *)

\* C18: every submission of the same valid body is answered 200 and leaves
\* exactly one contact with the normalized phone, which is a member of the
\* list; from the end of the first submission on, the contacts and the
\* members of the store never change.
C18_Resubmission ==
    /\ [](Done =>
            /\ response.status = 200
            /\ Cardinality(ContactsWith(remote, formattedPhone)) = 1
            /\ Cardinality({c \in ContactsWith(remote, formattedPhone) :
                               c.id \in remote.members}) = 1)
    /\ [][remote.round >= 1 =>
            /\ remote'.contacts = remote.contacts
            /\ remote'.members = remote.members]_vars

\* The second submission has been answered: the platform reported the
\* conflict, the contact was updated and added to the list again.
C18_Witness ==
    /\ Done
    /\ remote.round = 1
    /\ Kinds = <<"create", "update", "list">>
    /\ replies[1].status = 409
    /\ replies[3].status = 204
    /\ response.status = 200
    /\ Cardinality(remote.contacts) = 2

---------------------------------------------------------------------------
(* C21: shape and idempotence of the normalized phone.                     *)

\* C21: for every phone text, the normalized phone starts with '+', holds
\* only digits and '+', and normalizing it again returns it unchanged.
C21_NormalizedShape ==
    Len(calls) >= 1 =>
        /\ StartsWith(formattedPhone, "+")
        /\ \A i \in 1..Len(formattedPhone) : formattedPhone[i] \in Digits \cup {"+"}
        /\ FormatPhone(formattedPhone) = formattedPhone

\* A text with a trunk zero, punctuation and an inner '+' has been normalized.
C21_Witness ==
    /\ Len(calls) >= 1
    /\ body.phone.s = <<"0", "-", "+">>
    /\ formattedPhone = <<"+", "6", "1", "+">>

---------------------------------------------------------------------------
(* C22: the client-subscription handler ignores the status of the replies. *)

\* The client-subscription handler has answered a valid submission with the
\* public key and the list identifier configured.
ClientAnswered ==
    /\ handler = "client"
    /\ ValidSubmission
    /\ env.KLAVIYO_PUBLIC_API_KEY # ""
    /\ env.KLAVIYO_LIST_ID # ""
    /\ Done

\* No outbound call of the invocation threw.
NoCallThrew == \A i \in 1..Len(replies) : ~replies[i].threw

\* The client-subscription call and the search call were answered and the
\* text of their replies was read.
OuterCallsRead ==
    \A i \in 1..Len(replies) :
        calls[i].kind \in {"subscribe", "search"} =>
            ~replies[i].threw /\ replies[i].body.k # "unreadable"

\* C22 as stated: in the client-subscription handler, for a valid submission
\* with the public key and the list identifier configured, the response is
\* 200 with success true whenever no outbound call throws, whatever the
\* status of the replies.
C22_AsStated == (ClientAnswered /\ NoCallThrew) => response = SuccessResponse

\* C22 amended: the response is 200 with success true exactly when the
\* client-subscription call and the search call are answered and the text of
\* their replies can be read, whatever the status of every reply and
\* whatever happens to the update, create and membership-add calls.
C22_StatusIgnored == ClientAnswered => (response = SuccessResponse <=> OuterCallsRead)

\* The subscription was rejected, the profile was created and the
\* membership-add call failed: the response is the success.
C22_Witness ==
    /\ ClientAnswered
    /\ Kinds = <<"subscribe", "search", "create", "list">>
    /\ replies[1].status = 400
    /\ replies[4].status = 500
    /\ NoCallThrew
    /\ response = SuccessResponse

---------------------------------------------------------------------------
(* C23: the image generator writes its output only with the fonts read.    *)

\* The first read of the three fonts was rejected.
FirstReadFailed == og.reads = 2 \/ (og.reads = 1 /\ ~og.fonts)

\* The second read of the three fonts was rejected.
SecondReadFailed == og.reads = 2 /\ ~og.fonts

\* downloadFonts has returned: the three fonts were fetched and saved.
DownloadReturned == og.next = Len(FontFiles) + 1

\* A font download was answered with a non-OK status.
DownloadRefused == \E i \in 1..Len(og.statuses) : ~Ok(og.statuses[i])

\* C23: rendering starts and public/og-image.jpg is written only with the
\* three fonts read; downloadFonts runs exactly once if the first read
\* fails (and never otherwise), and once it returns the fonts are read a
\* second time; after a font download answered with a non-OK status or a
\* failed second read, rendering has not started, no output is written and
\* the run has ended with the error logged.
C23_FontsBeforeOutput ==
    /\ (og.rendering \/ og.written) => og.fonts
    /\ og.downloads = IF FirstReadFailed THEN 1 ELSE 0
    /\ og.reads <= 2
    /\ og.reads = 2 => DownloadReturned
    /\ DownloadReturned => (og.pc = "fontsAgain" \/ og.reads = 2)
    /\ (DownloadRefused \/ SecondReadFailed) =>
          /\ ~og.rendering
          /\ ~og.written
          /\ og.pc = "failed"
          /\ og.logged # NoFailure

\* The fonts were missing, were downloaded and read again, and the image
\* has been written.
C23_Witness ==
    /\ og.pc = "done"
    /\ og.written
    /\ og.reads = 2
    /\ og.downloads = 1
    /\ og.statuses = <<200, 200, 200>>

=============================================================================
